---- MODULE Spec2Model ----
(***************************************************************************)
(* A model of the two in-memory components of the buffer pool:             *)
(*   - ExtendibleHashTable (src/container/hash/extendible_hash_table.cpp)  *)
(*   - LRUKReplacer        (src/buffer/lru_k_replacer.cpp)                 *)
(* The two components never call each other; each has its own              *)
(* specification (HashSpec, ReplacerSpec) over its own variables, in which *)
(* every call is one step. ConcurrentSpec has threads calling the          *)
(* replacer, a call taking a step to enter and a step to do its work.      *)
(***************************************************************************)
EXTENDS Integers, Sequences, FiniteSets, TLC

(***************************************************************************)
(* Bounds of the model.                                                    *)
(***************************************************************************)
\* keys of the hash table are the integers 0..MaxKey
MaxKey == 7
\* bucket_size values given to the constructor are 0..MaxBucketSize
MaxBucketSize == 2
\* number of public hash table calls in one behaviour
MaxOps == 4
\* num_frames given to the replacer's constructor
NumFrames == 2
\* k given to the replacer's constructor is 1..MaxK
MaxK == 2
\* RecordAccess is called while the logical clock is below MaxTick
MaxTick == 4
\* number of threads calling one replacer
NumThreads == 2

Keys == 0..MaxKey
\* two distinguishable mapped values
Values == {"a", "b"}
\* "no value": what Find reports when it returns false
NoVal == "none"

VARIABLES
  \* ---- ExtendibleHashTable ----
  dir_,            \* std::vector<std::shared_ptr<Bucket>>: slot i is dir_[i+1], a bucket id
  buckets,         \* the heap of Bucket objects: bucket id -> [depth, list]
  global_depth_,
  bucket_size_,
  num_buckets_,
  h_status,        \* "ready": between calls; "diverged": Insert never returns; "crashed"
  h_ops,           \* number of calls made so far
  h_expect,        \* per key, the value of the last returned Insert since the last Remove
  \* ---- LRUKReplacer ----
  hash_,           \* std::unordered_map<frame_id_t, Frame>: tracked frame id -> [time_, evictable_]
  current_timestamp_,
  curr_size_,
  replacer_size_,
  k_,
  l_acc,           \* per tracked frame, every tick recorded for it since it was created
  l_last,          \* the last call: its name, whether it threw, and the frame of a
                   \* RecordAccess, of a Remove that threw, or evicted by Evict
  l_pre,           \* hash_, l_acc and curr_size_ as they were before the last Evict or failed call
  latch_,          \* std::mutex of the replacer: the thread that holds it, or NoThread
  pc               \* per thread, the replacer call it is inside, "idle" or "crashed"

hvars == <<dir_, buckets, global_depth_, bucket_size_, num_buckets_,
           h_status, h_ops, h_expect>>

lvars == <<hash_, current_timestamp_, curr_size_, replacer_size_, k_,
           l_acc, l_last, l_pre>>

cvars == <<latch_, pc>>

vars == <<hvars, lvars, cvars>>

(***************************************************************************)
(* Helpers.                                                                *)
(***************************************************************************)
RECURSIVE Pow2(_)
\* 1 << n
Pow2(n) == IF n = 0 THEN 1 ELSE 2 * Pow2(n - 1)

\* std::hash<int>: the identity on the (non-negative) keys of the model
Hash(key) == key

\* hash & ((1 << depth) - 1)
MaskTo(h, depth) == h % Pow2(depth)

(***************************************************************************)
(* Bucket                                                                  *)
(***************************************************************************)
\* Bucket::Bucket(array_size, depth): an empty list at the given depth
NewBucket(depth) == [depth |-> depth, list |-> <<>>]

\* Bucket::IsFull: the list holds its capacity
IsFull(list, size) == Len(list) >= size

\* Bucket::Find: the value of the first entry with this key, or NoVal
BucketFind(list, key) ==
  IF \E i \in 1..Len(list) : list[i][1] = key
  THEN LET i == CHOOSE i \in 1..Len(list) :
                  /\ list[i][1] = key
                  /\ \A j \in 1..(i - 1) : list[j][1] # key
       IN list[i][2]
  ELSE NoVal

\* Bucket::Remove: erases the first entry with this key; ok tells whether one was found
BucketRemove(list, key) ==
  IF \E i \in 1..Len(list) : list[i][1] = key
  THEN LET i == CHOOSE i \in 1..Len(list) :
                  /\ list[i][1] = key
                  /\ \A j \in 1..(i - 1) : list[j][1] # key
       IN [ok |-> TRUE,
           list |-> [j \in 1..(Len(list) - 1) |-> IF j < i THEN list[j] ELSE list[j + 1]]]
  ELSE [ok |-> FALSE, list |-> list]

\* Bucket::Insert appending without the test of IsFull
BucketInsert_NoFullTest(list, size, key, value) ==
  IF \E i \in 1..Len(list) : list[i][1] = key
  THEN LET i == CHOOSE i \in 1..Len(list) :
                  /\ list[i][1] = key
                  /\ \A j \in 1..(i - 1) : list[j][1] # key
       IN [ok |-> TRUE, list |-> [list EXCEPT ![i] = <<key, value>>]]
  ELSE [ok |-> TRUE, list |-> Append(list, <<key, value>>)]

\* Bucket::Insert: overwrite in place, else refuse when full, else append
BucketInsert(list, size, key, value) ==
  IF \E i \in 1..Len(list) : list[i][1] = key
  THEN LET i == CHOOSE i \in 1..Len(list) :
                  /\ list[i][1] = key
                  /\ \A j \in 1..(i - 1) : list[j][1] # key
       IN [ok |-> TRUE, list |-> [list EXCEPT ![i] = <<key, value>>]]
  ELSE IF IsFull(list, size)
       THEN [ok |-> FALSE, list |-> list]
       ELSE [ok |-> TRUE, list |-> Append(list, <<key, value>>)]

(***************************************************************************)
(* ExtendibleHashTable                                                     *)
(* A table value t is [dir, buckets, gd, nb, size].                        *)
(***************************************************************************)
\* ExtendibleHashTable(bucket_size): depth 0, one bucket, no check of bucket_size
Constructor(bucket_size) ==
  [dir |-> <<1>>, buckets |-> <<NewBucket(0)>>, gd |-> 0, nb |-> 1, size |-> bucket_size]

\* IndexOf: the hash masked to the low global_depth_ bits
IndexOf(t, key) == MaskTo(Hash(key), t.gd)

\* the bucket id in the slot a key routes to
Routed(t, key) == t.dir[IndexOf(t, key) + 1]

\* ExtendibleHashTable::Find on a table value
FindIn(t, key) == BucketFind(t.buckets[Routed(t, key)].list, key)

\* ExtendibleHashTable::Remove on a table value
RemoveIn(t, key) ==
  LET bi == Routed(t, key)
      r  == BucketRemove(t.buckets[bi].list, key)
  IN [ok |-> r.ok, t |-> [t EXCEPT !.buckets[bi].list = r.list]]

RECURSIVE RedistributeLoop(_, _, _, _, _, _, _, _)
\* the for loop of RedistributeBucket over the items not yet visited (rest):
\* an item whose index under the new mask differs from pre_index is inserted into
\* the sibling p, erased from the bucket, and dir_[index] is set to p
RedistributeLoop(rest, stay, p, dir, pid, size, localdepth, pre_index) ==
  IF rest = <<>>
  THEN [stay |-> stay, p |-> p, dir |-> dir]
  ELSE LET it    == Head(rest)
           index == MaskTo(Hash(it[1]), localdepth)
       IN IF index # pre_index
          THEN RedistributeLoop(Tail(rest), stay,
                                BucketInsert(p, size, it[1], it[2]).list,
                                [dir EXCEPT ![index + 1] = pid],
                                pid, size, localdepth, pre_index)
          ELSE RedistributeLoop(Tail(rest), Append(stay, it), p, dir,
                                pid, size, localdepth, pre_index)

\* RedistributeBucket incrementing the depth of the split bucket a second time
RedistributeBucket_DepthTwice(t, bi) ==
  LET b          == t.buckets[bi]
      localdepth == b.depth + 1
      pid        == Len(t.buckets) + 1
      pre_index  == MaskTo(Hash(b.list[1][1]), localdepth - 1)
      r          == RedistributeLoop(b.list, <<>>, <<>>, t.dir, pid, t.size,
                                     localdepth, pre_index)
      old        == [depth |-> localdepth + 1, list |-> r.stay]
      heap       == [t.buckets EXCEPT ![bi] = old]
  IN [t EXCEPT !.nb = t.nb + 1,
               !.dir = r.dir,
               !.buckets = IF r.p = <<>>
                           THEN heap
                           ELSE Append(heap, [depth |-> localdepth, list |-> r.p])]

\* ExtendibleHashTable::RedistributeBucket on the bucket with id bi, whose list
\* is not empty. The sibling lives on only if some slot was pointed to it.
RedistributeBucket(t, bi) ==
  LET b          == t.buckets[bi]
      localdepth == b.depth + 1
      pid        == Len(t.buckets) + 1
      pre_index  == MaskTo(Hash(b.list[1][1]), localdepth - 1)
      r          == RedistributeLoop(b.list, <<>>, <<>>, t.dir, pid, t.size,
                                     localdepth, pre_index)
      old        == [depth |-> localdepth, list |-> r.stay]
      heap       == [t.buckets EXCEPT ![bi] = old]
  IN [t EXCEPT !.nb = t.nb + 1,
               !.dir = r.dir,
               !.buckets = IF r.p = <<>>
                           THEN heap
                           ELSE Append(heap, [depth |-> localdepth, list |-> r.p])]

\* the else branch of Insert: global_depth_++ and the directory doubled
DoubleDirectory(t) == [t EXCEPT !.gd = t.gd + 1, !.dir = t.dir \o t.dir]

\* A full bucket that no later split can ever change: every entry has the hash
\* of the first one and that hash has no bit at or above the local depth, so in
\* every later RedistributeBucket index = pre_index for every entry.
NeverSplits(b) ==
  /\ b.list # <<>>
  /\ \A i \in 1..Len(b.list) : Hash(b.list[i][1]) = Hash(b.list[1][1])
  /\ Hash(b.list[1][1]) < Pow2(b.depth)

RECURSIVE InsertLoop(_, _, _)
\* the while(true) loop of ExtendibleHashTable::Insert.
\* out = "ok": the loop reached break, t is the table at the return;
\* out = "diverged": the loop never reaches break: the routed bucket is full and
\*   can never change, so every further iteration only doubles the directory or
\*   splits without moving an entry (t is the table when this is detected);
\* out = "undefined": RedistributeBucket is entered with an empty list and
\*   dereferences its begin().
InsertLoop(t, key, value) ==
  LET bi == Routed(t, key)
      b  == t.buckets[bi]
      r  == BucketInsert(b.list, t.size, key, value)
  IN IF r.ok
     THEN [out |-> "ok", t |-> [t EXCEPT !.buckets[bi].list = r.list]]
     ELSE IF NeverSplits(b)
          THEN [out |-> "diverged", t |-> t]
          ELSE IF b.depth # t.gd
               THEN IF b.list = <<>>
                    THEN [out |-> "undefined", t |-> t]
                    ELSE InsertLoop(RedistributeBucket(t, bi), key, value)
               ELSE InsertLoop(DoubleDirectory(t), key, value)

(***************************************************************************)
(* LRUKReplacer                                                            *)
(* A replacer value r is [hash, ts, size]: hash_, current_timestamp_ and   *)
(* curr_size_ (replacer_size_ and k_ never change after construction).     *)
(***************************************************************************)
\* the value Evict stores in *frame_id before its scan
NoFrame == -1

\* the frame ids given to the calls: the non-negative ids up to one past the
\* first id the range check refuses
FrameIds == 0..(NumFrames + 1)

\* a Frame as hash_[frame_id] creates it: no timestamps, not evictable
NewFrame == [time_ |-> <<>>, evictable_ |-> FALSE]

\* hash_[frame_id] of std::unordered_map: the frame, created if absent
At(hash, frame_id) ==
  IF frame_id \in DOMAIN hash THEN hash[frame_id] ELSE NewFrame

\* hash_ with frame_id mapped to frame
Put(hash, frame_id, frame) ==
  [f \in DOMAIN hash \cup {frame_id} |-> IF f = frame_id THEN frame ELSE hash[f]]

\* hash_.erase(frame_id)
Erase(hash, frame_id) == [f \in DOMAIN hash \ {frame_id} |-> hash[f]]

\* CompareFrame without its two tests of the history sizes
CompareFrame_NoSizeTest(hash, k, f1, f2) ==
  Head(hash[f1].time_) < Head(hash[f2].time_)

\* CompareFrame preferring the later front timestamp
CompareFrame_Later(hash, k, f1, f2) ==
  IF Len(hash[f1].time_) < k /\ Len(hash[f2].time_) = k
  THEN TRUE
  ELSE IF Len(hash[f1].time_) = k /\ Len(hash[f2].time_) < k
       THEN FALSE
       ELSE Head(hash[f1].time_) > Head(hash[f2].time_)

\* CompareFrame(f1, f2): true if f1 is to be evicted rather than f2
CompareFrame(hash, k, f1, f2) ==
  IF Len(hash[f1].time_) < k /\ Len(hash[f2].time_) = k
  THEN TRUE
  ELSE IF Len(hash[f1].time_) = k /\ Len(hash[f2].time_) < k
       THEN FALSE
       ELSE Head(hash[f1].time_) < Head(hash[f2].time_)

\* one iteration of the for loop of Evict: the candidate after visiting f
EvictVisit(hash, k, cand, f) ==
  IF hash[f].evictable_ /\ (cand = NoFrame \/ CompareFrame(hash, k, f, cand))
  THEN f
  ELSE cand

RECURSIVE EvictScan(_, _, _, _)
\* the for loop of Evict over the frames of hash_ not yet visited (rest), from
\* candidate cand: the candidates it can end with, over every order in which
\* the unordered_map may be iterated
EvictScan(hash, k, rest, cand) ==
  IF rest = {}
  THEN {cand}
  ELSE UNION {EvictScan(hash, k, rest \ {f}, EvictVisit(hash, k, cand, f)) : f \in rest}

\* the frames Evict can choose (NoFrame when no tracked frame is evictable)
EvictChoices(hash, k) == EvictScan(hash, k, DOMAIN hash, NoFrame)

\* Remove erasing the frame without counting it out of curr_size_
RemoveFrame_NoCount(r, frame_id) ==
  IF frame_id \notin DOMAIN r.hash
  THEN [out |-> "noop", r |-> r]
  ELSE IF ~r.hash[frame_id].evictable_
       THEN [out |-> "throw", r |-> r]
       ELSE [out |-> "ok", r |-> [r EXCEPT !.hash = Erase(r.hash, frame_id)]]

\* Remove erasing the frame before it tests the evictable flag
RemoveFrame_EraseFirst(r, frame_id) ==
  IF frame_id \notin DOMAIN r.hash
  THEN [out |-> "noop", r |-> r]
  ELSE IF ~r.hash[frame_id].evictable_
       THEN [out |-> "throw", r |-> [r EXCEPT !.hash = Erase(r.hash, frame_id)]]
       ELSE [out |-> "ok",
             r |-> [r EXCEPT !.hash = Erase(r.hash, frame_id), !.size = r.size - 1]]

\* LRUKReplacer::Remove on a replacer value: out is "ok", "noop" (unknown frame)
\* or "throw" (the frame is not evictable)
RemoveFrame(r, frame_id) ==
  IF frame_id \notin DOMAIN r.hash
  THEN [out |-> "noop", r |-> r]
  ELSE IF ~r.hash[frame_id].evictable_
       THEN [out |-> "throw", r |-> r]
       ELSE [out |-> "ok",
             r |-> [r EXCEPT !.hash = Erase(r.hash, frame_id), !.size = r.size - 1]]

\* RecordAccess popping the oldest timestamp of every history that is not empty
PushAccess_PopAlways(r, k, frame_id) ==
  LET frame  == At(r.hash, frame_id)
      popped == IF frame.time_ # <<>> THEN Tail(frame.time_) ELSE frame.time_
  IN [r EXCEPT !.hash = Put(r.hash, frame_id,
                            [frame EXCEPT !.time_ = Append(popped, r.ts)]),
               !.ts = r.ts + 1]

\* RecordAccess without the pop of the oldest timestamp
PushAccess_NoPop(r, k, frame_id) ==
  LET frame == At(r.hash, frame_id)
  IN [r EXCEPT !.hash = Put(r.hash, frame_id,
                            [frame EXCEPT !.time_ = Append(frame.time_, r.ts)]),
               !.ts = r.ts + 1]

\* the body of RecordAccess after its range check: the oldest timestamp is
\* popped when the history holds k, then current_timestamp_++ is pushed
PushAccess(r, k, frame_id) ==
  LET frame  == At(r.hash, frame_id)
      popped == IF Len(frame.time_) = k THEN Tail(frame.time_) ELSE frame.time_
  IN [r EXCEPT !.hash = Put(r.hash, frame_id,
                            [frame EXCEPT !.time_ = Append(popped, r.ts)]),
               !.ts = r.ts + 1]

\* the range check of RecordAccess: frame_id > replacer_size_ throws
FrameInvalid(frame_id, replacer_size) == frame_id > replacer_size

\* SetEvictable counting every call, whatever the flag was before
SetEvictableIn_NoPre(r, frame_id, set_evictable) ==
  IF frame_id \notin DOMAIN r.hash
  THEN r
  ELSE [r EXCEPT !.hash[frame_id].evictable_ = set_evictable,
                 !.size = IF set_evictable THEN r.size + 1 ELSE r.size - 1]

\* LRUKReplacer::SetEvictable on a replacer value
SetEvictableIn(r, frame_id, set_evictable) ==
  IF frame_id \notin DOMAIN r.hash
  THEN r
  ELSE LET pre == r.hash[frame_id].evictable_
       IN [r EXCEPT !.hash[frame_id].evictable_ = set_evictable,
                    !.size = IF pre /\ ~set_evictable THEN r.size - 1
                             ELSE IF ~pre /\ set_evictable THEN r.size + 1
                             ELSE r.size]

\* the replacer value held in the variables
Replacer == [hash |-> hash_, ts |-> current_timestamp_, size |-> curr_size_]

\* the variables set from a replacer value
InstallReplacer(r) ==
  /\ hash_' = r.hash
  /\ current_timestamp_' = r.ts
  /\ curr_size_' = r.size
  /\ UNCHANGED <<replacer_size_, k_>>

\* LRUKReplacer::Size
Size == curr_size_

\* the threads that call the replacer
Threads == 1..NumThreads

\* the value of latch_ while no thread holds it
NoThread == 0

\* no thread is inside a call and the latch is free
ThreadsIdle ==
  /\ latch_ = NoThread
  /\ pc = [t \in Threads |-> "idle"]

\* no frame is tracked
NoFrames == [f \in {} |-> NewFrame]

\* the record kept of the state a call started in, when no call is recorded
NoSnapshot == [hash |-> NoFrames, acc |-> NoFrames, size |-> 0]

\* the record of the state a call starts in: the frame map, the accesses logged
\* for each tracked frame since it was created, and the evictable count
Snapshot == [hash |-> hash_, acc |-> l_acc, size |-> curr_size_]

\* the hash table while only the replacer is exercised
HashIdle ==
  /\ dir_ = Constructor(1).dir
  /\ buckets = Constructor(1).buckets
  /\ global_depth_ = Constructor(1).gd
  /\ num_buckets_ = Constructor(1).nb
  /\ bucket_size_ = Constructor(1).size
  /\ h_status = "ready"
  /\ h_ops = 0
  /\ h_expect = [k \in Keys |-> NoVal]

\* LRUKReplacer(num_frames, k): nothing tracked, clock 0, size 0
ReplacerInit ==
  /\ replacer_size_ = NumFrames
  /\ k_ \in 1..MaxK
  /\ hash_ = NoFrames
  /\ current_timestamp_ = 0
  /\ curr_size_ = 0
  /\ l_acc = NoFrames
  /\ l_last = [op |-> "none", frame |-> NoFrame, threw |-> FALSE]
  /\ l_pre = NoSnapshot
  /\ ThreadsIdle
  /\ HashIdle

\* the replacer while only the hash table is exercised
ReplacerIdle ==
  /\ replacer_size_ = NumFrames
  /\ k_ = 1
  /\ hash_ = NoFrames
  /\ current_timestamp_ = 0
  /\ curr_size_ = 0
  /\ l_acc = NoFrames
  /\ l_last = [op |-> "none", frame |-> NoFrame, threw |-> FALSE]
  /\ l_pre = NoSnapshot
  /\ ThreadsIdle

\* RecordAccess(frame_id): the whole call
RecordAccess(frame_id) ==
  /\ current_timestamp_ < MaxTick
  /\ IF FrameInvalid(frame_id, replacer_size_)
     THEN /\ l_last' = [op |-> "RecordAccess", frame |-> frame_id, threw |-> TRUE]
          /\ l_pre' = Snapshot
          /\ UNCHANGED <<hash_, current_timestamp_, curr_size_, replacer_size_, k_, l_acc>>
     ELSE /\ InstallReplacer(PushAccess(Replacer, k_, frame_id))
          /\ l_acc' = Put(l_acc, frame_id,
                          Append(IF frame_id \in DOMAIN l_acc THEN l_acc[frame_id]
                                                              ELSE <<>>,
                                 current_timestamp_))
          /\ l_last' = [op |-> "RecordAccess", frame |-> frame_id, threw |-> FALSE]
          /\ l_pre' = NoSnapshot
  /\ UNCHANGED <<hvars, cvars>>

\* SetEvictable(frame_id, set_evictable): the whole call
SetEvictable(frame_id, set_evictable) ==
  /\ InstallReplacer(SetEvictableIn(Replacer, frame_id, set_evictable))
  /\ l_last' = [op |-> "SetEvictable", frame |-> NoFrame, threw |-> FALSE]
  /\ l_pre' = NoSnapshot
  /\ UNCHANGED l_acc
  /\ UNCHANGED <<hvars, cvars>>

\* Evict(frame_id): the whole call, choosing victim; the victim found, if any,
\* is removed by Remove
Evict(victim) ==
  /\ LET r == RemoveFrame(Replacer, victim)
     IN /\ InstallReplacer(r.r)
        /\ l_acc' = Erase(l_acc, victim)
        /\ l_last' = [op |-> "Evict", frame |-> victim, threw |-> (r.out = "throw")]
  /\ l_pre' = Snapshot
  /\ UNCHANGED <<hvars, cvars>>

\* Remove(frame_id) of the replacer: the whole call
ReplacerRemove(frame_id) ==
  /\ LET r == RemoveFrame(Replacer, frame_id)
     IN /\ InstallReplacer(r.r)
        /\ l_acc' = IF r.out = "ok" THEN Erase(l_acc, frame_id) ELSE l_acc
        /\ l_last' = [op |-> "Remove",
                      frame |-> IF r.out = "throw" THEN frame_id ELSE NoFrame,
                      threw |-> (r.out = "throw")]
        /\ l_pre' = IF r.out = "throw" THEN Snapshot
                                       ELSE NoSnapshot
  /\ UNCHANGED <<hvars, cvars>>

ReplacerNext ==
  \/ \E frame_id \in FrameIds : RecordAccess(frame_id)
  \/ \E frame_id \in FrameIds, set_evictable \in BOOLEAN :
       SetEvictable(frame_id, set_evictable)
  \/ \E victim \in EvictChoices(hash_, k_) : Evict(victim)
  \/ \E frame_id \in FrameIds : ReplacerRemove(frame_id)

(***************************************************************************)
(* Threads calling one replacer. A call enters (taking latch_ if its first *)
(* statement is the scoped_lock) and then, in a second step, does its work *)
(* and returns (the scoped_lock releasing latch_). Between the two steps   *)
(* the thread is inside the call, reading or writing hash_ and curr_size_. *)
(***************************************************************************)
\* the calls whose first statement is std::scoped_lock lock(latch_)
LockedCalls == {"RecordAccess", "SetEvictable", "Evict"}

\* the calls that take no lock: Remove (its scoped_lock is commented out) and Size
UnlockedCalls == {"Remove", "Size"}

\* the calls that write hash_ or curr_size_
WritingCalls == {"RecordAccess", "SetEvictable", "Evict", "Remove"}

\* thread t is inside a call that writes hash_ or curr_size_
Writing(t) == pc[t] \in WritingCalls

\* thread t is inside a call, reading or writing hash_ or curr_size_
Inside(t) == pc[t] \in LockedCalls \cup UnlockedCalls

\* thread t is inside a call at the same time as another thread, and one of
\* the two calls writes: a data race on hash_ or curr_size_
Raced(t) ==
  \E u \in Threads \ {t} : Inside(t) /\ Inside(u) /\ (Writing(t) \/ Writing(u))

\* what a call that raced with another one can do: complete as if it had run
\* alone, or fault (the behaviour of the racing accesses is undefined)
RaceOutcomes == {"completed", "crashed"}

\* thread t enters a call that locks: it blocks until latch_ is free
EnterLocked(t, call) ==
  /\ pc[t] = "idle"
  /\ latch_ = NoThread
  /\ call = "RecordAccess" => current_timestamp_ < MaxTick
  /\ latch_' = t
  /\ pc' = [pc EXCEPT ![t] = call]
  /\ UNCHANGED <<hvars, lvars>>

\* thread t enters Remove or Size: latch_ is neither tested nor taken
EnterUnlocked(t, call) ==
  /\ pc[t] = "idle"
  /\ pc' = [pc EXCEPT ![t] = call]
  /\ UNCHANGED <<hvars, lvars, latch_>>

\* the call thread t is inside does its work, leaving replacer value r, and
\* returns or throws; a scoped_lock held by t releases latch_. After a data
\* race the call may instead fault, which ends the process.
Leave(t, r) ==
  \E outcome \in (IF Raced(t) THEN RaceOutcomes ELSE {"completed"}) :
    /\ IF outcome = "completed"
       THEN /\ InstallReplacer(r)
            /\ pc' = [pc EXCEPT ![t] = "idle"]
            /\ latch_' = IF latch_ = t THEN NoThread ELSE latch_
       ELSE /\ pc' = [u \in Threads |-> "crashed"]
            /\ UNCHANGED <<hash_, current_timestamp_, curr_size_, replacer_size_,
                           k_, latch_>>
    /\ UNCHANGED <<hvars, l_acc, l_last, l_pre>>

\* the body of RecordAccess(frame_id) run by thread t
RecordAccessBy(t, frame_id) ==
  /\ pc[t] = "RecordAccess"
  /\ Leave(t, IF FrameInvalid(frame_id, replacer_size_)
              THEN Replacer
              ELSE PushAccess(Replacer, k_, frame_id))

\* the body of SetEvictable(frame_id, set_evictable) run by thread t
SetEvictableBy(t, frame_id, set_evictable) ==
  /\ pc[t] = "SetEvictable"
  /\ Leave(t, SetEvictableIn(Replacer, frame_id, set_evictable))

\* the body of Evict run by thread t, choosing victim
EvictBy(t, victim) ==
  /\ pc[t] = "Evict"
  /\ Leave(t, RemoveFrame(Replacer, victim).r)

\* the body of Remove(frame_id) run by thread t
RemoveBy(t, frame_id) ==
  /\ pc[t] = "Remove"
  /\ Leave(t, RemoveFrame(Replacer, frame_id).r)

\* the body of Size run by thread t: curr_size_ is read
SizeBy(t) ==
  /\ pc[t] = "Size"
  /\ Leave(t, Replacer)

\* LRUKReplacer(num_frames, k) shared by the threads, none of them in a call
ConcurrentInit ==
  /\ replacer_size_ = NumFrames
  /\ k_ \in 1..MaxK
  /\ hash_ = NoFrames
  /\ current_timestamp_ = 0
  /\ curr_size_ = 0
  /\ l_acc = NoFrames
  /\ l_last = [op |-> "none", frame |-> NoFrame, threw |-> FALSE]
  /\ l_pre = NoSnapshot
  /\ ThreadsIdle
  /\ HashIdle

ConcurrentNext ==
  \/ \E t \in Threads, call \in LockedCalls : EnterLocked(t, call)
  \/ \E t \in Threads, call \in UnlockedCalls : EnterUnlocked(t, call)
  \/ \E t \in Threads, frame_id \in FrameIds : RecordAccessBy(t, frame_id)
  \/ \E t \in Threads, frame_id \in FrameIds, set_evictable \in BOOLEAN :
       SetEvictableBy(t, frame_id, set_evictable)
  \/ \E t \in Threads, victim \in EvictChoices(hash_, k_) : EvictBy(t, victim)
  \/ \E t \in Threads, frame_id \in FrameIds : RemoveBy(t, frame_id)
  \/ \E t \in Threads : SizeBy(t)

\* the table value held in the variables
Table ==
  [dir |-> dir_, buckets |-> buckets, gd |-> global_depth_, nb |-> num_buckets_,
   size |-> bucket_size_]

\* the variables set from a table value
Install(t) ==
  /\ dir_' = t.dir
  /\ buckets' = t.buckets
  /\ global_depth_' = t.gd
  /\ num_buckets_' = t.nb
  /\ bucket_size_' = t.size

\* ExtendibleHashTable::Find(key, value): the value found, or NoVal for false
Find(key) == FindIn(Table, key)

\* GetGlobalDepth
GetGlobalDepth == global_depth_

\* GetNumBuckets
GetNumBuckets == num_buckets_

\* GetLocalDepth(dir_index)
GetLocalDepth(dir_index) == buckets[dir_[dir_index + 1]].depth

HashInit ==
  \E bucket_size \in 0..MaxBucketSize :
    /\ dir_ = Constructor(bucket_size).dir
    /\ buckets = Constructor(bucket_size).buckets
    /\ global_depth_ = Constructor(bucket_size).gd
    /\ num_buckets_ = Constructor(bucket_size).nb
    /\ bucket_size_ = Constructor(bucket_size).size
    /\ h_status = "ready"
    /\ h_ops = 0
    /\ h_expect = [k \in Keys |-> NoVal]
    /\ ReplacerIdle

\* what an Insert that met undefined behaviour can do: fault, or go on looping
\* (the value read is never used, as the loop over the empty list does not run)
UndefinedOutcomes == {"crashed", "diverged"}

\* Insert(key, value): the whole call
Insert(key, value) ==
  /\ h_status = "ready"
  /\ h_ops < MaxOps
  /\ LET r == InsertLoop(Table, key, value)
     IN /\ Install(r.t)
        /\ IF r.out = "ok"
           THEN /\ h_status' = "ready"
                /\ h_expect' = [h_expect EXCEPT ![key] = value]
           ELSE /\ h_status' \in (IF r.out = "undefined" THEN UndefinedOutcomes
                                                         ELSE {"diverged"})
                /\ h_expect' = h_expect
  /\ h_ops' = h_ops + 1
  /\ UNCHANGED <<lvars, cvars>>

\* Remove(key): the whole call
Remove(key) ==
  /\ h_status = "ready"
  /\ h_ops < MaxOps
  /\ Install(RemoveIn(Table, key).t)
  /\ h_expect' = [h_expect EXCEPT ![key] = NoVal]
  /\ h_status' = "ready"
  /\ h_ops' = h_ops + 1
  /\ UNCHANGED <<lvars, cvars>>

HashNext ==
  \/ \E key \in Keys, value \in Values : Insert(key, value)
  \/ \E key \in Keys : Remove(key)

\* the hash table under any sequence of Insert and Remove calls
HashSpec == HashInit /\ [][HashNext]_vars

\* the replacer under any sequence of its public calls
ReplacerSpec == ReplacerInit /\ [][ReplacerNext]_vars

\* the replacer called by several threads
ConcurrentSpec == ConcurrentInit /\ [][ConcurrentNext]_vars

(***************************************************************************)
(* Claims about the hash table, checked under HashSpec.                    *)
(***************************************************************************)

\* C1: on a table constructed with bucket_size >= 1 every Insert call
\* terminates: after finitely many directory doublings and bucket splits the
\* entry is stored and the call returns, so no call is left looping.
C1_InsertTerminates == bucket_size_ >= 1 => h_status = "ready"

\* C2: once Insert(k, v) has returned, Find(k) returns v in every later state
\* reached by calls on other keys, until k is inserted again or removed.
C2_FindReturnsInserted ==
  h_status = "ready" =>
    \A k \in Keys : h_expect[k] # NoVal => Find(k) = h_expect[k]

\* C8: a table with bucket_size = 0 is rejected at construction: no such
\* instance exists that has accepted an Insert call.
C8_ZeroBucketSizeRejected == ~(bucket_size_ = 0 /\ h_ops > 0)

\* C9: in every reachable state, for every key k inserted and not removed
\* since, Insert(k, v') returns leaving the global depth and the bucket count
\* as they were.
C9_ReinsertDoesNotGrow ==
  h_status = "ready" =>
    \A k \in Keys, v \in Values :
      h_expect[k] # NoVal =>
        LET r == InsertLoop(Table, k, v)
        IN /\ r.out = "ok"
           /\ r.t.gd = GetGlobalDepth
           /\ r.t.nb = GetNumBuckets

\* C10: in every reachable state, for a key k inserted and not removed since,
\* Remove(k) returns true; for a key k whose last call was Remove(k) (or that
\* was never inserted) Find(k) returns none and Remove(k) returns false.
C10_RemoveRoundTrip ==
  h_status = "ready" =>
    \A k \in Keys :
      IF h_expect[k] # NoVal
      THEN RemoveIn(Table, k).ok
      ELSE Find(k) = NoVal /\ ~RemoveIn(Table, k).ok

\* the directory slots, numbered from 0 as dir_ is indexed
Slots == 0..(Len(dir_) - 1)

\* C14: after any sequence of Insert and Remove calls the directory has
\* 2^GetGlobalDepth() slots and GetLocalDepth(i) <= GetGlobalDepth() for every
\* slot i.
C14_DirectorySizeLaw ==
  /\ Len(dir_) = Pow2(GetGlobalDepth)
  /\ \A i \in Slots : GetLocalDepth(i) <= GetGlobalDepth

\* the directory has been doubled three times and buckets have been split: one
\* slot holds a bucket of local depth 1 and another a bucket of local depth 3
C14_Witness ==
  /\ h_status = "ready"
  /\ GetGlobalDepth = 3
  /\ \E i \in Slots : GetLocalDepth(i) = 1
  /\ \E i \in Slots : GetLocalDepth(i) = 3

\* the buckets the directory of table value t references
Referenced(t) == {t.dir[i] : i \in 1..Len(t.dir)}

\* each key is stored at most once in the buckets the directory of t references
StoredOnce(t) ==
  \A b1, b2 \in Referenced(t) :
    \A i \in 1..Len(t.buckets[b1].list), j \in 1..Len(t.buckets[b2].list) :
      t.buckets[b1].list[i][1] = t.buckets[b2].list[j][1] => (b1 = b2 /\ i = j)

\* C15: after every Insert or Remove returns, all directory slots that
\* reference one bucket, of local depth d, have the same index mod 2^d.
C15_AliasingInvariant ==
  h_status = "ready" =>
    \A i, j \in Slots :
      dir_[i + 1] = dir_[j + 1] =>
        MaskTo(i, GetLocalDepth(i)) = MaskTo(j, GetLocalDepth(i))

\* C16: after any sequence of Insert and Remove calls no key appears in two
\* entries of the buckets the directory references: this holds in every state
\* reached and in the state any further Insert that returns would leave.
C16_KeyStoredOnce ==
  h_status = "ready" =>
    /\ StoredOnce(Table)
    /\ \A k \in Keys, v \in Values :
         LET r == InsertLoop(Table, k, v)
         IN r.out = "ok" => StoredOnce(r.t)

\* C17: after any sequence of Insert and Remove calls GetNumBuckets() is the
\* number of distinct buckets the directory references.
C17_NumBucketsCountsReferenced ==
  h_status = "ready" => GetNumBuckets = Cardinality(Referenced(Table))

\* C20: after every Insert or Remove returns, no bucket the directory
\* references holds more entries than the bucket_size given at construction.
C20_BucketWithinCapacity ==
  h_status = "ready" =>
    \A b \in Referenced(Table) : Len(buckets[b].list) <= bucket_size_

\* a bucket of capacity 2 has been split: it holds 2 entries again and its
\* sibling, the bucket created last, is referenced and holds an entry
C20_Witness ==
  /\ h_status = "ready"
  /\ bucket_size_ = 2
  /\ Len(buckets) >= 2
  /\ Len(buckets) \in Referenced(Table)
  /\ buckets[Len(buckets)].list # <<>>
  /\ \E b \in Referenced(Table) \ {Len(buckets)} :
       /\ Len(buckets[b].list) = 2
       /\ buckets[b].depth = buckets[Len(buckets)].depth

(***************************************************************************)
(* Claims about the replacer, checked under ReplacerSpec.                  *)
(***************************************************************************)
\* the last call was an Evict that returned a frame
Evicted == l_last.op = "Evict" /\ l_last.frame # NoFrame

\* the frames that were evictable when the last Evict was called
PreEvictable == {f \in DOMAIN l_pre.hash : l_pre.hash[f].evictable_}

\* the number of accesses recorded for f when the last Evict was called
Accesses(f) == Len(l_pre.acc[f])

\* the tick of the first access recorded for f
FirstAccess(f) == l_pre.acc[f][1]

\* the tick of the k_-th most recent access recorded for f (f has k_ or more)
KthRecentAccess(f) == l_pre.acc[f][Len(l_pre.acc[f]) - k_ + 1]

\* C3: Evict never returns a frame with K or more recorded accesses while an
\* evictable frame with fewer than K recorded accesses is tracked.
C3_FewerThanKPreferred ==
  Evicted =>
    ~(/\ Accesses(l_last.frame) >= k_
      /\ \E f \in PreEvictable : Accesses(f) < k_)

\* an Evict chose among evictable frames of both kinds, and the frame with K
\* accesses had the older first timestamp
C3_Witness ==
  /\ Evicted
  /\ Accesses(l_last.frame) < k_
  /\ \E f \in PreEvictable :
       Accesses(f) >= k_ /\ FirstAccess(f) < FirstAccess(l_last.frame)

\* C4: when every evictable frame has at least K recorded accesses, Evict
\* returns the one whose K-th most recent access tick is the smallest,
\* whatever the order in which the frame map is iterated.
C4_LargestKDistance ==
  (Evicted /\ \A f \in PreEvictable : Accesses(f) >= k_) =>
    \A f \in PreEvictable : KthRecentAccess(l_last.frame) <= KthRecentAccess(f)

\* an Evict chose among several frames with K or more accesses, one of them
\* with more than K accesses and an older first access than the victim's
C4_Witness ==
  /\ Evicted
  /\ \A f \in PreEvictable : Accesses(f) >= k_
  /\ \E f \in PreEvictable \ {l_last.frame} :
       Accesses(f) > k_ /\ FirstAccess(f) < FirstAccess(l_last.frame)

\* C5: when every evictable frame has fewer than K recorded accesses, Evict
\* returns the one whose earliest recorded access is the oldest.
C5_EarliestFirstAccess ==
  (Evicted /\ \A f \in PreEvictable : Accesses(f) < k_) =>
    \A f \in PreEvictable : FirstAccess(l_last.frame) <= FirstAccess(f)

\* an Evict chose among three evictable frames accessed once each, fewer than K
C5_Witness ==
  /\ Evicted
  /\ Cardinality(PreEvictable) >= 3
  /\ \A f \in PreEvictable : Accesses(f) = 1 /\ Accesses(f) < k_

\* C6: after any sequence of calls, failed ones included, Size() is the number
\* of tracked frames whose evictable flag is true.
C6_SizeCountsEvictable ==
  Size = Cardinality({f \in DOMAIN hash_ : hash_[f].evictable_})

\* a call has just failed while two frames are evictable
C6_Witness == l_last.threw /\ Size = 2

\* C7: RecordAccess(frame_id) fails for every frame_id >= capacity and creates
\* no tracked frame for it.
C7_OutOfRangeRejected ==
  (l_last.op = "RecordAccess" /\ l_last.frame >= replacer_size_) =>
    (l_last.threw /\ l_last.frame \notin DOMAIN hash_)

\* C11: a call that fails (Remove of a tracked frame that is not evictable,
\* RecordAccess with a frame id out of range) leaves the tracked frames, every
\* history, every evictable flag, the accesses on record and the evictable
\* count as they were when the call started.
C11_FailedCallChangesNothing ==
  l_last.threw =>
    /\ hash_ = l_pre.hash
    /\ l_acc = l_pre.acc
    /\ curr_size_ = l_pre.size

\* Remove has just failed on a tracked frame that holds a history and is not
\* evictable, while another frame is evictable
C11_Witness ==
  /\ l_last.op = "Remove"
  /\ l_last.threw
  /\ l_last.frame \in DOMAIN hash_
  /\ ~hash_[l_last.frame].evictable_
  /\ hash_[l_last.frame].time_ # <<>>
  /\ Size = 1

\* C12: an Evict that returns a frame leaves it untracked, so that a
\* RecordAccess on it next would start a history of one timestamp with the
\* evictable flag false; Size() is one less than before the call and every
\* other frame keeps its history and flag. An Evict called when no frame is
\* evictable returns none and changes nothing.
C12_EvictRemovesVictim ==
  l_last.op = "Evict" =>
    IF PreEvictable = {}
    THEN /\ l_last.frame = NoFrame
         /\ hash_ = l_pre.hash
         /\ Size = l_pre.size
    ELSE /\ l_last.frame \in PreEvictable
         /\ ~l_last.threw
         /\ l_last.frame \notin DOMAIN hash_
         /\ PushAccess(Replacer, k_, l_last.frame).hash[l_last.frame]
              = [time_ |-> <<current_timestamp_>>, evictable_ |-> FALSE]
         /\ Size = l_pre.size - 1
         /\ DOMAIN hash_ = DOMAIN l_pre.hash \ {l_last.frame}
         /\ \A f \in DOMAIN hash_ : hash_[f] = l_pre.hash[f]

\* an Evict has returned a frame that held two timestamps, out of two evictable
\* frames, and the other one is still tracked with its history
C12_Witness ==
  /\ Evicted
  /\ Len(l_pre.hash[l_last.frame].time_) = 2
  /\ Cardinality(PreEvictable) = 2
  /\ \E f \in DOMAIN hash_ : hash_[f].evictable_ /\ Len(hash_[f].time_) = 2
  /\ Size = 1

\* the last n elements of sequence s (all of s when it has fewer)
LastOf(s, n) == IF Len(s) <= n THEN s ELSE SubSeq(s, Len(s) - n + 1, Len(s))

\* C18: every RecordAccess call, one that fails with the out-of-range error
\* included, advances current_timestamp_ by exactly one.
C18_ClockAdvancesOnEveryCall ==
  [][(\E frame_id \in FrameIds : RecordAccess(frame_id))
       => current_timestamp_' = current_timestamp_ + 1]_vars

\* C19: the history of each tracked frame holds at most K timestamps, strictly
\* increasing, and they are the ticks of its accesses since it was created: all
\* of them while there are fewer than K, the K most recent ones from then on.
C19_HistoryHoldsLastK ==
  \A f \in DOMAIN hash_ :
    /\ Len(hash_[f].time_) <= k_
    /\ \A i, j \in 1..Len(hash_[f].time_) :
         i < j => hash_[f].time_[i] < hash_[f].time_[j]
    /\ hash_[f].time_ = LastOf(l_acc[f], k_)

\* a frame has been accessed more than K times since it was created, K being 2,
\* with an access to another frame in between
C19_Witness ==
  /\ k_ = 2
  /\ \E f \in DOMAIN hash_ :
       /\ Len(l_acc[f]) > k_
       /\ hash_[f].time_[2] > hash_[f].time_[1] + 1

(***************************************************************************)
(* Claims about the replacer called by threads, checked under              *)
(* ConcurrentSpec.                                                         *)
(***************************************************************************)
\* C13: every public call holds the lock from its entry to its return, so no
\* thread is inside a public call, reading or writing the frame map or the
\* evictable count, while another thread is inside a call that writes them.
C13_CallsHoldTheLock ==
  \A t, u \in Threads :
    t # u => ~(Inside(t) /\ Writing(u))

====
